---- MODULE Spec2Model ----
(***************************************************************************)
(* Model of the dashboard generator (src/unnamed/part_001): paginated tag  *)
(* discovery, grouping by cluster, the executive and developer widget      *)
(* builders, and the handler that publishes two dashboards per cluster.    *)
(*                                                                         *)
(* Representation of JavaScript values:                                    *)
(*  - a string-or-undefined value is a string, Undefined standing for      *)
(*    `undefined`; Truthy is JavaScript's truthiness on such values;       *)
(*  - a pagination token is a natural number, 0 standing for a falsy       *)
(*    token (undefined or ""), k > 0 for an opaque non-empty token;        *)
(*  - an ARN "arn:aws:<service>:<region>:<acct>:<p1>/<p2>/..." is the      *)
(*    record [service, path] with path = <<p1, p2, ...>>; NoArn is the     *)
(*    absent (falsy) ARN;                                                  *)
(*  - the `clusters` object is the sequence of its buckets in insertion    *)
(*    order (the order of Object.keys for non-numeric keys).               *)
(***************************************************************************)
EXTENDS Integers, Sequences, FiniteSets, TLC

(* ------------------------------ bounds --------------------------------- *)
MaxPages == 3
MaxPageLen == 1
MaxMappings == 3
MaxAlbs == 2
MaxServices == 7

(* --------------------------- configuration ----------------------------- *)
REGION == "us-east-1"
CLUSTER_TAG_KEY == "Team"
TAG_VALUE == "NodeJS"
DASHBOARD_EXEC_PREFIX == "Exec-"
DASHBOARD_DEV_PREFIX == "Dev-"

(* --------------------------- JavaScript values ------------------------- *)
Undefined == "<undefined>"
Truthy(v) == v # Undefined /\ v # ""
NoToken == 0
TruthyToken(t) == t # NoToken
NoArn == [service |-> "", path |-> <<>>]
ArnPresent(arn) == arn # NoArn

(* ------------------------------ ARN helpers ---------------------------- *)
\* arn.includes(":" + svc + ":")
IncludesService(arn, svc) == arn.service = svc
\* arn.includes(marker + "/")
IncludesMarker(arn, marker) ==
  \E i \in 1..(Len(arn.path) - 1) : arn.path[i] = marker
\* serviceArn.split("/")[k] for k >= 1, Undefined when there is no such part
SplitPart(arn, k) ==
  IF k + 1 <= Len(arn.path) THEN arn.path[k + 1] ELSE Undefined

extractAlbDimension(albArn) ==
  LET hits == {i \in 1..(Len(albArn.path) - 1) : albArn.path[i] = "loadbalancer"}
  IN IF hits = {}
       THEN <<"arn", albArn.service>> \o albArn.path
       ELSE LET idx == CHOOSE i \in hits : \A j \in hits : i <= j
            IN SubSeq(albArn.path, idx + 1, Len(albArn.path))

extractClusterFromServiceArn(serviceArn) ==
  IF Truthy(SplitPart(serviceArn, 1)) THEN SplitPart(serviceArn, 1) ELSE "unknown"

extractClusterAndService(serviceArn) ==
  [clusterName |-> IF Truthy(SplitPart(serviceArn, 1))
                     THEN SplitPart(serviceArn, 1) ELSE "unknown-cluster",
   serviceName |-> IF Truthy(SplitPart(serviceArn, 2))
                     THEN SplitPart(serviceArn, 2) ELSE "unknown-service"]

(* ------------------------------- grouping ------------------------------ *)
\* Mutant: `??` instead of `||`, an empty tag value names its own bucket.
clusterNameOf_Nullish(m, clusterTagKey) ==
  LET hits == {i \in 1..Len(m.Tags) : m.Tags[i].Key = clusterTagKey}
      v == IF hits = {} THEN Undefined
           ELSE m.Tags[CHOOSE i \in hits : \A j \in hits : i <= j].Value
  IN IF v # Undefined THEN v ELSE "unknown"

\* (tags.find((t) => t.Key === clusterTagKey) || {}).Value || "unknown"
clusterNameOf(m, clusterTagKey) ==
  LET hits == {i \in 1..Len(m.Tags) : m.Tags[i].Key = clusterTagKey}
      v == IF hits = {} THEN Undefined
           ELSE m.Tags[CHOOSE i \in hits : \A j \in hits : i <= j].Value
  IN IF Truthy(v) THEN v ELSE "unknown"

isEcsService(arn) == IncludesService(arn, "ecs") /\ IncludesMarker(arn, "service")
isAlb(arn) ==
  IncludesService(arn, "elasticloadbalancing") /\ IncludesMarker(arn, "loadbalancer")

BucketIndex(clusters, name) ==
  CHOOSE i \in 1..Len(clusters) : clusters[i].clusterName = name

\* Mutant: a resource without a usable cluster tag joins the bucket created
\* last instead of "unknown", which makes the result depend on input order.
GroupStep_StickyDefault(clusters, m, clusterTagKey) ==
  IF ~ArnPresent(m.ResourceARN) THEN clusters
  ELSE
    LET arn == m.ResourceARN
        tagged == clusterNameOf(m, clusterTagKey)
        clusterName == IF tagged = "unknown" /\ Len(clusters) > 0
                         THEN clusters[Len(clusters)].clusterName ELSE tagged
        c1 == IF \E i \in 1..Len(clusters) : clusters[i].clusterName = clusterName
                THEN clusters
                ELSE Append(clusters, [clusterName |-> clusterName,
                                       ecsServices |-> <<>>, albs |-> <<>>])
        k == BucketIndex(c1, clusterName)
    IN IF isEcsService(arn)
         THEN [c1 EXCEPT ![k].ecsServices = Append(@, arn)]
         ELSE IF isAlb(arn)
           THEN [c1 EXCEPT ![k].albs = Append(@, arn)]
           ELSE c1

\* One iteration of the loop of groupByCluster.
GroupStep(clusters, m, clusterTagKey) ==
  IF ~ArnPresent(m.ResourceARN) THEN clusters
  ELSE
    LET arn == m.ResourceARN
        clusterName == clusterNameOf(m, clusterTagKey)
        c1 == IF \E i \in 1..Len(clusters) : clusters[i].clusterName = clusterName
                THEN clusters
                ELSE Append(clusters, [clusterName |-> clusterName,
                                       ecsServices |-> <<>>, albs |-> <<>>])
        k == BucketIndex(c1, clusterName)
    IN IF isEcsService(arn)
         THEN [c1 EXCEPT ![k].ecsServices = Append(@, arn)]
         ELSE IF isAlb(arn)
           THEN [c1 EXCEPT ![k].albs = Append(@, arn)]
           ELSE c1

RECURSIVE GroupLoop(_, _, _)
GroupLoop(clusters, ms, clusterTagKey) ==
  IF Len(ms) = 0 THEN clusters
  ELSE GroupLoop(GroupStep(clusters, Head(ms), clusterTagKey), Tail(ms), clusterTagKey)

groupByCluster(ms, clusterTagKey) == GroupLoop(<<>>, ms, clusterTagKey)

ObjectKeys(clusters) == [i \in 1..Len(clusters) |-> clusters[i].clusterName]

(* ------------------------------- widgets ------------------------------- *)
width == 8
height == 6

RECURSIVE TrafficMetrics(_)
TrafficMetrics(albs) ==
  IF Len(albs) = 0 THEN <<>>
  ELSE << <<"AWS/ApplicationELB", "RequestCount", "LoadBalancer",
            extractAlbDimension(Head(albs))>>,
          <<".", "HTTPCode_Target_4XX_Count", ".", ".">>,
          <<".", "HTTPCode_Target_5XX_Count", ".", ".">> >>
       \o TrafficMetrics(Tail(albs))

RECURSIVE LatencyMetrics(_)
LatencyMetrics(albs) ==
  IF Len(albs) = 0 THEN <<>>
  ELSE << <<"AWS/ApplicationELB", "TargetResponseTime", "LoadBalancer",
            extractAlbDimension(Head(albs)), [stat |-> "p95"]>> >>
       \o LatencyMetrics(Tail(albs))

RECURSIVE ErrorMetrics(_)
ErrorMetrics(albs) ==
  IF Len(albs) = 0 THEN <<>>
  ELSE << <<"AWS/ApplicationELB", "HTTPCode_Target_4XX_Count", "LoadBalancer",
            extractAlbDimension(Head(albs))>>,
          <<".", "HTTPCode_Target_5XX_Count", ".", ".">> >>
       \o ErrorMetrics(Tail(albs))

RECURSIVE TlsMetrics(_)
TlsMetrics(albs) ==
  IF Len(albs) = 0 THEN <<>>
  ELSE << <<"AWS/ApplicationELB", "ClientTLSNegotiationErrorCount", "LoadBalancer",
            extractAlbDimension(Head(albs))>> >>
       \o TlsMetrics(Tail(albs))

\* The widget literals; `stat` is "" where the source sets none.
Widget(x, y, w, h, stat, title, metrics) ==
  [type |-> "metric", x |-> x, y |-> y, width |-> w, height |-> h,
   properties |-> [region |-> REGION, view |-> "timeSeries", period |-> 60,
                   stat |-> stat, title |-> title, metrics |-> metrics]]

ExecTrafficTitle(name) == name \o " - ALB Traffic & Errors"
ExecLatencyTitle(name) == name \o " - Latency (p95)"
ExecEcsTitle(name) == name \o " - ECS Utilization & Tasks"
DevCpuMemTitle(serviceName) == "Service - " \o serviceName \o " CPU & Memory"
DevTasksTitle(serviceName) == "Service - " \o serviceName \o " Tasks"
DevAlbErrorsTitle(name) == name \o " - ALB Errors"
DevAlbLatencyTitle(name) == name \o " - ALB Latency (p95)"
DevClusterTasksTitle(name) == name \o " - ECS Tasks (Running vs Desired)"
DevTlsTitle == "ALB Client TLS Negotiation Errors"

ExecTrafficWidget(resources, y) ==
  Widget(0, y, 12, 6, "Sum", ExecTrafficTitle(resources.clusterName),
         TrafficMetrics(resources.albs))

ExecLatencyWidget(resources, y) ==
  Widget(0, y, 12, 6, "", ExecLatencyTitle(resources.clusterName),
         LatencyMetrics(resources.albs))

ExecEcsWidget(resources, y) ==
  LET clusterName == extractClusterFromServiceArn(resources.ecsServices[1])
  IN Widget(0, y, 12, 6, "", ExecEcsTitle(resources.clusterName),
            << <<"AWS/ECS", "CPUUtilization", "ClusterName", clusterName>>,
               <<".", "MemoryUtilization", ".", ".">>,
               <<".", "RunningTaskCount", ".", ".">>,
               <<".", "DesiredTaskCount", ".", ".">> >>)

\* Mutant: the row cursor is not advanced after the traffic widget.
buildExecutiveWidgets_NoAdvance(resources) ==
  LET hasAlb == Len(resources.albs) > 0
      w1 == IF hasAlb THEN <<ExecTrafficWidget(resources, 0)>> ELSE <<>>
      y1 == 0
      w2 == IF hasAlb THEN <<ExecLatencyWidget(resources, y1)>> ELSE <<>>
      y2 == IF hasAlb THEN y1 + 6 ELSE y1
      w3 == IF Len(resources.ecsServices) > 0
              THEN <<ExecEcsWidget(resources, y2)>> ELSE <<>>
  IN w1 \o w2 \o w3

buildExecutiveWidgets(resources) ==
  LET hasAlb == Len(resources.albs) > 0
      w1 == IF hasAlb THEN <<ExecTrafficWidget(resources, 0)>> ELSE <<>>
      y1 == IF hasAlb THEN 0 + 6 ELSE 0
      w2 == IF hasAlb THEN <<ExecLatencyWidget(resources, y1)>> ELSE <<>>
      y2 == IF hasAlb THEN y1 + 6 ELSE y1
      w3 == IF Len(resources.ecsServices) > 0
              THEN <<ExecEcsWidget(resources, y2)>> ELSE <<>>
  IN w1 \o w2 \o w3

\* Returns <<widget>>, or <<>> for the `undefined` of a group without ALBs.
buildAlbTlsNegotiationErrorsWidget(resources, x, y, w, h) ==
  IF Len(resources.albs) > 0
    THEN <<Widget(x, y, w, h, "Sum", DevTlsTitle, TlsMetrics(resources.albs))>>
    ELSE <<>>

buildEcsClusterTasksWidget(clusterName, x, y) ==
  Widget(x, y, 12, 6, "Sum", DevClusterTasksTitle(clusterName),
         << <<[id |-> "run", label |-> "Running (sum across services)",
               expression |-> <<"SEARCH", "RunningTaskCount", clusterName, "Sum", 60>>]>>,
            <<[id |-> "des", label |-> "Desired (sum across services)",
               expression |-> <<"SEARCH", "DesiredTaskCount", clusterName, "Sum", 60>>]>> >>)

\* Mutant: the third widget of a row resets x but does not open a new row.
CpuMemStep_NoWrap(st, svcArn) ==
  LET cs == extractClusterAndService(svcArn)
      w == Widget(st.x, st.y, width, height, "", DevCpuMemTitle(cs.serviceName),
             << <<"AWS/ECS", "CPUUtilization", "ClusterName", cs.clusterName,
                  "ServiceName", cs.serviceName>>,
                <<".", "MemoryUtilization", ".", ".", ".", ".">> >>)
  IN IF st.col + 1 = 3
       THEN [widgets |-> Append(st.widgets, w), x |-> 0, y |-> st.y, col |-> 0]
       ELSE [widgets |-> Append(st.widgets, w), x |-> st.x + width, y |-> st.y,
             col |-> st.col + 1]

\* One iteration of the per-service CPU/Mem loop; st is the builder's local
\* state [widgets, x, y, col].
CpuMemStep(st, svcArn) ==
  LET cs == extractClusterAndService(svcArn)
      w == Widget(st.x, st.y, width, height, "", DevCpuMemTitle(cs.serviceName),
             << <<"AWS/ECS", "CPUUtilization", "ClusterName", cs.clusterName,
                  "ServiceName", cs.serviceName>>,
                <<".", "MemoryUtilization", ".", ".", ".", ".">> >>)
  IN IF st.col + 1 = 3
       THEN [widgets |-> Append(st.widgets, w), x |-> 0, y |-> st.y + height, col |-> 0]
       ELSE [widgets |-> Append(st.widgets, w), x |-> st.x + width, y |-> st.y,
             col |-> st.col + 1]

\* One iteration of the per-service Tasks loop.
TasksStep(st, svcArn) ==
  LET cs == extractClusterAndService(svcArn)
      w == Widget(st.x, st.y, width, height, "", DevTasksTitle(cs.serviceName),
             << <<"AWS/ECS", "RunningTaskCount", "ClusterName", cs.clusterName,
                  "ServiceName", cs.serviceName>>,
                <<".", "DesiredTaskCount", ".", ".", ".", ".">> >>)
  IN IF st.col + 1 = 3
       THEN [widgets |-> Append(st.widgets, w), x |-> 0, y |-> st.y + height, col |-> 0]
       ELSE [widgets |-> Append(st.widgets, w), x |-> st.x + width, y |-> st.y,
             col |-> st.col + 1]

RECURSIVE CpuMemLoop(_, _)
CpuMemLoop(st, svcs) ==
  IF Len(svcs) = 0 THEN st ELSE CpuMemLoop(CpuMemStep(st, Head(svcs)), Tail(svcs))

RECURSIVE TasksLoop(_, _)
TasksLoop(st, svcs) ==
  IF Len(svcs) = 0 THEN st ELSE TasksLoop(TasksStep(st, Head(svcs)), Tail(svcs))

buildDeveloperWidgets(resources) ==
  LET \* the two calls whose return values the builder drops
      tls == buildAlbTlsNegotiationErrorsWidget(resources, 0, 0, 12, 6)
      agg == buildEcsClusterTasksWidget(resources.clusterName, 0, 6)
      st0 == [widgets |-> <<>>, x |-> 0, y |-> 0, col |-> 0]
      st1 == CpuMemLoop(st0, resources.ecsServices)
      st2 == IF Len(resources.ecsServices) > 0
               THEN TasksLoop([widgets |-> st1.widgets, x |-> 0,
                               y |-> st1.y + height, col |-> 0],
                              resources.ecsServices)
               ELSE st1
      alb == IF Len(resources.albs) > 0
               THEN << Widget(0, st2.y + height, 12, 6, "",
                              DevAlbErrorsTitle(resources.clusterName),
                              ErrorMetrics(resources.albs)),
                       Widget(12, st2.y + height, 12, 6, "",
                              DevAlbLatencyTitle(resources.clusterName),
                              LatencyMetrics(resources.albs)) >>
               ELSE <<>>
  IN st2.widgets \o alb

(* =============================== state ================================= *)
VARIABLES
  pc,               \* handler: "discover", "putExec", "putDev", "done", "failed"
  out,              \* listTaggedResources: accumulated mappings
  PaginationToken,  \* listTaggedResources: token of the next request
  requests,         \* tokens of the GetResources requests sent, in order
  responses,        \* what the tagging backend answered, in order
  clusters,         \* handler: result of groupByCluster
  idx,              \* handler: position in Object.keys(clusters)
  calls,            \* PutDashboard requests sent, in order, with their outcome
  result,           \* handler: <<>> or <<the returned summary>>
  mappings,         \* grouping study: a mapping list
  permuted,         \* grouping study: a permutation of it
  grouped,          \* groupByCluster(mappings)
  groupedPerm,      \* groupByCluster(permuted)
  groupDone,        \* which of the two groupings have run
  resources,        \* layout study: one cluster group
  execWidgets,      \* buildExecutiveWidgets(resources)
  devWidgets,       \* buildDeveloperWidgets(resources)
  built             \* which of the two builders have run

handlerVars == <<pc, out, PaginationToken, requests, responses, clusters, idx,
                 calls, result>>
groupVars == <<mappings, permuted, grouped, groupedPerm, groupDone>>
layoutVars == <<resources, execWidgets, devWidgets, built>>
vars == <<handlerVars, groupVars, layoutVars>>

(* ----------------------------- input universe -------------------------- *)
Tag(k, v) == [Key |-> k, Value |-> v]
AlbArn(name) ==
  [service |-> "elasticloadbalancing", path |-> <<"loadbalancer", "app", name, "abc">>]
SvcArn(cluster, svc) == [service |-> "ecs", path |-> <<"service", cluster, svc>>]
Mapping(arn, tags) == [ResourceARN |-> arn, Tags |-> tags]

AlbProd == Mapping(AlbArn("web"), <<Tag("Env", "x"), Tag(CLUSTER_TAG_KEY, "prod")>>)
SvcProd == Mapping(SvcArn("prod", "api"), <<Tag(CLUSTER_TAG_KEY, "prod")>>)
SvcStage == Mapping(SvcArn("stage", "api"), <<Tag(CLUSTER_TAG_KEY, "stage")>>)
AlbEmptyTag == Mapping(AlbArn("edge"), <<Tag(CLUSTER_TAG_KEY, "")>>)
SvcNoTag == Mapping(SvcArn("misc", "job"), <<Tag("Env", "x")>>)
NoArnProd == Mapping(NoArn, <<Tag(CLUSTER_TAG_KEY, "prod")>>)
OtherUnknown ==
  Mapping([service |-> "s3", path |-> <<"bucket">>], <<Tag(CLUSTER_TAG_KEY, "unknown")>>)

\* What the stub tagging backend may put on a page.
BackendMappings == {AlbProd, SvcProd, SvcStage}
\* What a mapping list handed to groupByCluster may contain.
MappingUniverse ==
  {AlbProd, SvcProd, SvcStage, AlbEmptyTag, SvcNoTag, NoArnProd, OtherUnknown}

SeqsUpTo(S, n) == UNION {[1..k -> S] : k \in 0..n}

(* ============================== the handler ============================ *)
Summary(cs) == [statusCode |-> 200, body |-> [clusters |-> ObjectKeys(cs)]]

HandlerInit ==
  /\ pc = "discover"
  /\ out = <<>>
  /\ PaginationToken = NoToken
  /\ requests = <<>>
  /\ responses = <<>>
  /\ clusters = <<>>
  /\ idx = 0
  /\ calls = <<>>
  /\ result = <<>>

\* Mutant: a page without mappings ends the crawl.
GetResourcesOk_StopOnEmpty(list, tok) ==
  /\ pc = "discover"
  /\ Len(requests) < MaxPages
  /\ TruthyToken(tok) => Len(requests) + 1 < MaxPages
  /\ requests' = Append(requests, PaginationToken)
  /\ responses' = Append(responses, [ok |-> TRUE, ResourceTagMappingList |-> list,
                                     PaginationToken |-> tok])
  /\ out' = out \o list
  /\ PaginationToken' = tok
  /\ IF TruthyToken(tok) /\ Len(list) > 0
       THEN /\ pc' = "discover"
            /\ UNCHANGED <<clusters, idx, result>>
       ELSE /\ clusters' = groupByCluster(out', CLUSTER_TAG_KEY)
            /\ IF Len(clusters') = 0
                 THEN pc' = "done" /\ idx' = idx /\ result' = <<Summary(clusters')>>
                 ELSE pc' = "putExec" /\ idx' = 1 /\ result' = result
  /\ UNCHANGED <<calls, groupVars, layoutVars>>

\* One iteration of the do-while of listTaggedResources whose request the
\* backend answers with the page `list` and the token `tok`; after the last
\* page the handler groups and reaches its first putDashboard, or returns.
GetResourcesOk(list, tok) ==
  /\ pc = "discover"
  /\ Len(requests) < MaxPages
  /\ TruthyToken(tok) => Len(requests) + 1 < MaxPages
  /\ requests' = Append(requests, PaginationToken)
  /\ responses' = Append(responses, [ok |-> TRUE, ResourceTagMappingList |-> list,
                                     PaginationToken |-> tok])
  /\ out' = out \o list
  /\ PaginationToken' = tok
  /\ IF TruthyToken(tok)
       THEN /\ pc' = "discover"
            /\ UNCHANGED <<clusters, idx, result>>
       ELSE /\ clusters' = groupByCluster(out', CLUSTER_TAG_KEY)
            /\ IF Len(clusters') = 0
                 THEN pc' = "done" /\ idx' = idx /\ result' = <<Summary(clusters')>>
                 ELSE pc' = "putExec" /\ idx' = 1 /\ result' = result
  /\ UNCHANGED <<calls, groupVars, layoutVars>>

\* Mutant: a failed page request ends the crawl with the mappings so far.
GetResourcesError_Swallowed ==
  /\ pc = "discover"
  /\ Len(requests) < MaxPages
  /\ requests' = Append(requests, PaginationToken)
  /\ responses' = Append(responses, [ok |-> FALSE, ResourceTagMappingList |-> <<>>,
                                     PaginationToken |-> NoToken])
  /\ clusters' = groupByCluster(out, CLUSTER_TAG_KEY)
  /\ IF Len(clusters') = 0
       THEN pc' = "done" /\ idx' = idx /\ result' = <<Summary(clusters')>>
       ELSE pc' = "putExec" /\ idx' = 1 /\ result' = result
  /\ UNCHANGED <<out, PaginationToken, calls, groupVars, layoutVars>>

\* The backend rejects a page request: the await throws, nothing catches it
\* in listTaggedResources or in handler, and the invocation is rejected.
GetResourcesError ==
  /\ pc = "discover"
  /\ Len(requests) < MaxPages
  /\ requests' = Append(requests, PaginationToken)
  /\ responses' = Append(responses, [ok |-> FALSE, ResourceTagMappingList |-> <<>>,
                                     PaginationToken |-> NoToken])
  /\ pc' = "failed"
  /\ UNCHANGED <<out, PaginationToken, clusters, idx, calls, result,
                 groupVars, layoutVars>>

ExecCall(ok) ==
  [DashboardName |-> DASHBOARD_EXEC_PREFIX \o clusters[idx].clusterName,
   widgets |-> buildExecutiveWidgets(clusters[idx]), ok |-> ok]
DevCall(ok) ==
  [DashboardName |-> DASHBOARD_DEV_PREFIX \o clusters[idx].clusterName,
   widgets |-> buildDeveloperWidgets(clusters[idx]), ok |-> ok]

PutExecOk ==
  /\ pc = "putExec"
  /\ calls' = Append(calls, ExecCall(TRUE))
  /\ pc' = "putDev"
  /\ UNCHANGED <<out, PaginationToken, requests, responses, clusters, idx, result,
                 groupVars, layoutVars>>

\* cloudwatchClient.send rejects: putDashboard and handler rethrow.
PutExecError ==
  /\ pc = "putExec"
  /\ calls' = Append(calls, ExecCall(FALSE))
  /\ pc' = "failed"
  /\ UNCHANGED <<out, PaginationToken, requests, responses, clusters, idx, result,
                 groupVars, layoutVars>>

PutDevOk ==
  /\ pc = "putDev"
  /\ calls' = Append(calls, DevCall(TRUE))
  /\ IF idx < Len(clusters)
       THEN pc' = "putExec" /\ idx' = idx + 1 /\ result' = result
       ELSE pc' = "done" /\ idx' = idx /\ result' = <<Summary(clusters)>>
  /\ UNCHANGED <<out, PaginationToken, requests, responses, clusters,
                 groupVars, layoutVars>>

\* Mutant: the failure is caught and the loop goes on to the next cluster.
PutDevError_Swallowed ==
  /\ pc = "putDev"
  /\ calls' = Append(calls, DevCall(FALSE))
  /\ IF idx < Len(clusters)
       THEN pc' = "putExec" /\ idx' = idx + 1 /\ result' = result
       ELSE pc' = "done" /\ idx' = idx /\ result' = <<Summary(clusters)>>
  /\ UNCHANGED <<out, PaginationToken, requests, responses, clusters,
                 groupVars, layoutVars>>

PutDevError ==
  /\ pc = "putDev"
  /\ calls' = Append(calls, DevCall(FALSE))
  /\ pc' = "failed"
  /\ UNCHANGED <<out, PaginationToken, requests, responses, clusters, idx, result,
                 groupVars, layoutVars>>

GroupIdle ==
  /\ mappings = <<>> /\ permuted = <<>> /\ grouped = <<>> /\ groupedPerm = <<>>
  /\ groupDone = {}
LayoutIdle ==
  /\ resources = [clusterName |-> "", ecsServices |-> <<>>, albs |-> <<>>]
  /\ execWidgets = <<>> /\ devWidgets = <<>> /\ built = {}

Init == HandlerInit /\ GroupIdle /\ LayoutIdle

Next ==
  \/ \E list \in SeqsUpTo(BackendMappings, MaxPageLen) :
       \E tok \in {NoToken, Len(requests) + 1} : GetResourcesOk(list, tok)
  \/ GetResourcesError
  \/ PutExecOk
  \/ PutExecError
  \/ PutDevOk
  \/ PutDevError

Spec == Init /\ [][Next]_vars

(* ============================ grouping study =========================== *)
GroupInit ==
  /\ HandlerInit /\ LayoutIdle
  /\ mappings \in SeqsUpTo(MappingUniverse, MaxMappings)
  /\ \E p \in Permutations(1..Len(mappings)) :
       permuted = [i \in 1..Len(mappings) |-> mappings[p[i]]]
  /\ grouped = <<>> /\ groupedPerm = <<>> /\ groupDone = {}

GroupOriginal ==
  /\ "orig" \notin groupDone
  /\ grouped' = groupByCluster(mappings, CLUSTER_TAG_KEY)
  /\ groupDone' = groupDone \cup {"orig"}
  /\ UNCHANGED <<mappings, permuted, groupedPerm, handlerVars, layoutVars>>

GroupPermuted ==
  /\ "perm" \notin groupDone
  /\ groupedPerm' = groupByCluster(permuted, CLUSTER_TAG_KEY)
  /\ groupDone' = groupDone \cup {"perm"}
  /\ UNCHANGED <<mappings, permuted, grouped, handlerVars, layoutVars>>

GroupNext == GroupOriginal \/ GroupPermuted

SpecGroup == GroupInit /\ [][GroupNext]_vars

(* ============================= layout study ============================ *)
ClusterNames == {"prod", "stage"}
AlbList(l) == [i \in 1..l |-> AlbArn("lb" \o ToString(i))]
SvcList(name, s) == [i \in 1..s |-> SvcArn(name, "svc" \o ToString(i))]

LayoutInit ==
  /\ HandlerInit /\ GroupIdle
  /\ \E name \in ClusterNames, l \in 0..MaxAlbs, s \in 0..MaxServices :
       resources = [clusterName |-> name, ecsServices |-> SvcList(name, s),
                    albs |-> AlbList(l)]
  /\ execWidgets = <<>> /\ devWidgets = <<>> /\ built = {}

BuildExecutive ==
  /\ "exec" \notin built
  /\ execWidgets' = buildExecutiveWidgets(resources)
  /\ built' = built \cup {"exec"}
  /\ UNCHANGED <<resources, devWidgets, handlerVars, groupVars>>

BuildDeveloper ==
  /\ "dev" \notin built
  /\ devWidgets' = buildDeveloperWidgets(resources)
  /\ built' = built \cup {"dev"}
  /\ UNCHANGED <<resources, execWidgets, handlerVars, groupVars>>

LayoutNext == BuildExecutive \/ BuildDeveloper

SpecLayout == LayoutInit /\ [][LayoutNext]_vars

(* =============================== claims ================================ *)
ToSet(seq) == {seq[i] : i \in 1..Len(seq)}
NamesOf(cs) == ToSet(ObjectKeys(cs))
AlbSetOf(cs, n) ==
  UNION {ToSet(cs[i].albs) : i \in {j \in 1..Len(cs) : cs[j].clusterName = n}}
ServiceSetOf(cs, n) ==
  UNION {ToSet(cs[i].ecsServices) : i \in {j \in 1..Len(cs) : cs[j].clusterName = n}}
Bottoms(ws) == {ws[i].y + ws[i].height : i \in 1..Len(ws)}
MaxBottom(ws) ==
  IF Len(ws) = 0 THEN 0 ELSE CHOOSE b \in Bottoms(ws) : \A c \in Bottoms(ws) : c <= b
NoSharedOrigin(ws) ==
  \A i, j \in 1..Len(ws) : (ws[i].x = ws[j].x /\ ws[i].y = ws[j].y) => i = j
Titles(ws) == [i \in 1..Len(ws) |-> ws[i].properties.title]
RECURSIVE ConcatPages(_)
ConcatPages(rs) ==
  IF Len(rs) = 0 THEN <<>>
  ELSE Head(rs).ResourceTagMappingList \o ConcatPages(Tail(rs))
ExecName(i) == DASHBOARD_EXEC_PREFIX \o clusters[i].clusterName
DevName(i) == DASHBOARD_DEV_PREFIX \o clusters[i].clusterName
Issued(name) == \E c \in 1..Len(calls) : calls[c].DashboardName = name
FailedFor(i) ==
  \E c \in 1..Len(calls) :
    ~calls[c].ok /\ calls[c].DashboardName \in {ExecName(i), DevName(i)}
BothPublished(i) ==
  \E a, b \in 1..Len(calls) :
    /\ a < b
    /\ calls[a].ok /\ calls[a].DashboardName = ExecName(i)
    /\ calls[b].ok /\ calls[b].DashboardName = DevName(i)
RunEnded == pc \in {"done", "failed"}
NumAlbs == Len(resources.albs)
NumServices == Len(resources.ecsServices)

\* C1: when a publish call for some cluster fails, the ended run has still
\* issued the executive and the developer publish call of every cluster that
\* comes later in Object.keys(clusters).
C1_PublishFailureIsolated ==
  RunEnded =>
    \A i \in 1..Len(clusters) :
      FailedFor(i) =>
        \A j \in (i + 1)..Len(clusters) : Issued(ExecName(j)) /\ Issued(DevName(j))

\* C2: once page 1 was served with a continuation token and page 2
\* was answered with an error, the run has failed, has returned no summary
\* and has issued no publish call; no publish call is issued during discovery.
C2_Page2ErrorPublishesNothing ==
  /\ pc = "discover" => calls = <<>>
  /\ ( /\ Len(responses) >= 2
       /\ responses[1].ok /\ TruthyToken(responses[1].PaginationToken)
       /\ ~responses[2].ok )
     => (pc = "failed" /\ calls = <<>> /\ result = <<>>)
C2_Witness ==
  /\ Len(responses) = 2
  /\ responses[1].ok /\ Len(responses[1].ResourceTagMappingList) > 0
  /\ TruthyToken(responses[1].PaginationToken)
  /\ ~responses[2].ok

\* C3: the developer builder returns (1 if L>0) + 1 + 2*S + (2 if L>0)
\* widgets; for L = S = 1 these are the TLS widget, the aggregate tasks
\* widget, the service's CPU/Memory and Tasks widgets and the ALB pair.
C3_DeveloperWidgetList ==
  "dev" \in built =>
    /\ Len(devWidgets) = (IF NumAlbs > 0 THEN 1 ELSE 0) + 1 + 2 * NumServices
                         + (IF NumAlbs > 0 THEN 2 ELSE 0)
    /\ (NumAlbs = 1 /\ NumServices = 1) =>
         Titles(devWidgets) =
           << DevTlsTitle, DevClusterTasksTitle(resources.clusterName),
              DevCpuMemTitle("svc1"), DevTasksTitle("svc1"),
              DevAlbErrorsTitle(resources.clusterName),
              DevAlbLatencyTitle(resources.clusterName) >>

\* C4: for a group with at least one load balancer or service, no two
\* widgets of the executive list share an (x, y) origin, and no two widgets
\* of the developer list do.
C4_NoSharedOrigin ==
  (NumAlbs + NumServices > 0) =>
    /\ "exec" \in built => NoSharedOrigin(execWidgets)
    /\ "dev" \in built => NoSharedOrigin(devWidgets)
C4_Witness ==
  /\ built = {"exec", "dev"}
  /\ NumAlbs >= 1 /\ NumServices >= 4
  /\ Len(execWidgets) = 3 /\ Len(devWidgets) = 2 * NumServices + 2

\* C5: discovery sends one request per page, the first without a token and
\* each later one with the token of the previous response; it goes on while
\* responses carry a token, whatever their number of mappings, stops at the
\* first response without one, and then holds the concatenation of the pages.
C5_Pagination ==
  /\ Len(requests) = Len(responses)
  /\ \A k \in 1..Len(requests) :
       requests[k] = IF k = 1 THEN NoToken ELSE responses[k - 1].PaginationToken
  /\ \A k \in 1..(Len(responses) - 1) :
       responses[k].ok /\ TruthyToken(responses[k].PaginationToken)
  /\ pc = "discover" =>
       \A k \in 1..Len(responses) :
         responses[k].ok /\ TruthyToken(responses[k].PaginationToken)
  /\ (pc # "discover" /\ responses[Len(responses)].ok) =>
       /\ ~TruthyToken(responses[Len(responses)].PaginationToken)
       /\ out = ConcatPages(responses)
C5_Witness ==
  /\ pc # "discover"
  /\ Len(responses) = 3 /\ responses[3].ok
  /\ Len(responses[1].ResourceTagMappingList) > 0
  /\ Len(responses[2].ResourceTagMappingList) = 0
  /\ Len(responses[3].ResourceTagMappingList) > 0
  /\ Len(out) = 2

\* C6: grouping a mapping list and grouping any permutation of it yield the
\* same set of cluster names and, per cluster name, the same set of load
\* balancers and the same set of services.
C6_PermutationInvariant ==
  groupDone = {"orig", "perm"} =>
    /\ NamesOf(grouped) = NamesOf(groupedPerm)
    /\ \A n \in NamesOf(grouped) :
         /\ AlbSetOf(grouped, n) = AlbSetOf(groupedPerm, n)
         /\ ServiceSetOf(grouped, n) = ServiceSetOf(groupedPerm, n)
C6_Witness ==
  /\ groupDone = {"orig", "perm"}
  /\ permuted # mappings
  /\ Len(grouped) >= 2
  /\ ObjectKeys(grouped) # ObjectKeys(groupedPerm)
  /\ \E n \in NamesOf(grouped) : AlbSetOf(grouped, n) # {} /\ ServiceSetOf(grouped, n) # {}

FirstClusterTag(m) ==
  LET hits == {i \in 1..Len(m.Tags) : m.Tags[i].Key = CLUSTER_TAG_KEY}
  IN IF hits = {} THEN Undefined
     ELSE m.Tags[CHOOSE i \in hits : \A j \in hits : i <= j].Value
Grouped(m) == ArnPresent(m.ResourceARN)

\* C7 (as stated): a resource whose cluster tag is present with an empty
\* value is listed in the bucket named "" and not in "unknown", and a bucket
\* "unknown" exists only if some grouped mapping has no cluster tag at all
\* (or one that spells "unknown").
C7_EmptyTagOwnBucket ==
  "orig" \in groupDone =>
    /\ \A k \in 1..Len(mappings) :
         (Grouped(mappings[k]) /\ FirstClusterTag(mappings[k]) = ""
            /\ isAlb(mappings[k].ResourceARN)) =>
           /\ mappings[k].ResourceARN \in AlbSetOf(grouped, "")
           /\ mappings[k].ResourceARN \notin AlbSetOf(grouped, "unknown")
    /\ "unknown" \in NamesOf(grouped) =>
         \E k \in 1..Len(mappings) :
           Grouped(mappings[k])
             /\ FirstClusterTag(mappings[k]) \in {Undefined, "unknown"}

\* C7 (amended): a resource whose cluster tag is present with an empty value
\* is listed in the bucket "unknown"; no bucket is named ""; and a bucket
\* "unknown" exists only if some grouped mapping has no cluster tag, an
\* empty one, or one whose value is "unknown".
C7_EmptyTagIsUnknown ==
  "orig" \in groupDone =>
    /\ \A k \in 1..Len(mappings) :
         (Grouped(mappings[k]) /\ FirstClusterTag(mappings[k]) = ""
            /\ isAlb(mappings[k].ResourceARN)) =>
           mappings[k].ResourceARN \in AlbSetOf(grouped, "unknown")
    /\ "" \notin NamesOf(grouped)
    /\ "unknown" \in NamesOf(grouped) =>
         \E k \in 1..Len(mappings) :
           Grouped(mappings[k])
             /\ FirstClusterTag(mappings[k]) \in {Undefined, "", "unknown"}
C7_Witness ==
  /\ "orig" \in groupDone
  /\ \E k \in 1..Len(mappings) : mappings[k] = AlbEmptyTag
  /\ AlbEmptyTag.ResourceARN \in AlbSetOf(grouped, "unknown")

\* C8: a returned summary lists exactly the clusters whose executive and
\* developer dashboards were both published successfully, executive first,
\* in the order of Object.keys(clusters), under the prefixed names.
C8_SummaryIsPublishedClusters ==
  result # <<>> =>
    /\ pc = "done"
    /\ result[1].body.clusters =
         SelectSeq(ObjectKeys(clusters),
                   LAMBDA n : \E i \in 1..Len(clusters) :
                                clusters[i].clusterName = n /\ BothPublished(i))
    /\ \A i \in 1..Len(result[1].body.clusters) :
         /\ calls[2 * i - 1].ok
         /\ calls[2 * i - 1].DashboardName
              = DASHBOARD_EXEC_PREFIX \o result[1].body.clusters[i]
         /\ calls[2 * i].ok
         /\ calls[2 * i].DashboardName
              = DASHBOARD_DEV_PREFIX \o result[1].body.clusters[i]
C8_Witness ==
  /\ result # <<>>
  /\ Len(result[1].body.clusters) >= 2
  /\ Len(calls) = 4

\* C9: the executive builder returns 2*(1 if L>0) + (1 if S>0) widgets in the
\* order traffic/errors, latency, ECS utilization; the k-th (from 0) is at
\* x = 0, y = 6*k and is 12 wide and 6 high.
C9_ExecutiveLayout ==
  "exec" \in built =>
    /\ Len(execWidgets) = 2 * (IF NumAlbs > 0 THEN 1 ELSE 0)
                          + (IF NumServices > 0 THEN 1 ELSE 0)
    /\ Titles(execWidgets) =
         (IF NumAlbs > 0
            THEN <<ExecTrafficTitle(resources.clusterName),
                   ExecLatencyTitle(resources.clusterName)>>
            ELSE <<>>)
         \o (IF NumServices > 0 THEN <<ExecEcsTitle(resources.clusterName)>> ELSE <<>>)
    /\ \A k \in 1..Len(execWidgets) :
         /\ execWidgets[k].x = 0 /\ execWidgets[k].y = 6 * (k - 1)
         /\ execWidgets[k].width = 12 /\ execWidgets[k].height = 6
C9_Witness ==
  /\ "exec" \in built
  /\ NumAlbs >= 2 /\ NumServices >= 1
  /\ Len(execWidgets) = 3 /\ execWidgets[3].y = 12

\* C10: with at least one load balancer, the last two developer widgets are
\* at x = 0 and x = 12 on one row, whose y is the largest y + height of the
\* widgets before them (0 if there are none).
C10_AlbPairOnNextFreeRow ==
  ("dev" \in built /\ NumAlbs > 0) =>
    LET n == Len(devWidgets)
    IN /\ n >= 2
       /\ devWidgets[n - 1].x = 0 /\ devWidgets[n].x = 12
       /\ devWidgets[n - 1].y = devWidgets[n].y
       /\ devWidgets[n].y = MaxBottom(SubSeq(devWidgets, 1, n - 2))

====
